---- MODULE Spec2Model ----
(***************************************************************************)
(* CheckOnce (LinkedIn fraud job detector): the recruiter ledger kept in   *)
(* chrome.storage.local by content.js (getData / setData / getRecruiter /  *)
(* saveRecruiter / logPost, driven by scanPosts) and the scoring functions *)
(* score (content.js) and scoreRec (popup.js).                             *)
(*                                                                         *)
(* Conventions.                                                            *)
(*  - Time is counted in hours since an arbitrary epoch instead of         *)
(*    milliseconds, so MS_PER_DAY is 24.  The local time zone is UTC.      *)
(*  - A post date 'YYYY-MM-DD' is the number of its day (>= 0); the empty  *)
(*    or missing date is NoDate and a string Date cannot parse is BadDate. *)
(*  - A falsy firstSeen (undefined or 0) is 0.                             *)
(*  - A text is a sequence of characters; the stored snippet <<>> stands   *)
(*    for `undefined` (logPost stores `snippet || undefined`).             *)
(***************************************************************************)
EXTENDS Integers, Sequences, FiniteSets, TLC

\* ------------------------------------------------------------------ bounds
MaxCalls == 2          \* handler invocations started in one behaviour
Now0     == 492        \* wall clock at start: day 20, 12:00
MaxTicks == 1          \* hours the wall clock may advance
MaxEvalPosts == 3      \* posts of a record handed to score / scoreRec
MaxWinPosts == 5                        \* posts of a record of the window runs
MaxVolPosts == 8                        \* posts of a record of the volume runs

\* ------------------------------------------------------- program constants
MS_PER_DAY  == 24      \* content.js:126, in hours
SNIPPET_LEN == 80      \* content.js:99, slice(0, 80)
NOON        == 12      \* content.js:114, 'T12:00:00', in hours

NoDate  == -1
BadDate == -2

\* ------------------------------------------------------------------ inputs
\* of score and scoreRec: firstSeen absent, or 7, 6 and 4 days before the
\* first clock (6 hours more before the second)
EvalRoles     == {"", "Dev", "QA", "Ops"}
EvalDates     == {BadDate, NoDate, 17, 20}
EvalFirstSeen == {0, 13 * 24 + 9, 14 * 24 + 9, 16 * 24 + 9}
EvalNows      == {20 * 24 + 9, 20 * 24 + 15}
\* of logPost and getRecruiter
Procs   == {"h1", "h2"}                 \* async handlers in flight at once
Urls    == {"in/a", "in/b"}
NamesIn == {"", "Unknown", "Al", "Bo"}
RolesIn == {"Dev", "QA"}
DatesIn == {20}
TextsIn == {<< >>, <<"x">>, <<" ", "x">>, <<"y">>}
WhiteSpace == {" ", "\t", "\n"}

\* --------------------------------------------------------- pure operators
Min(a, b) == IF a < b THEN a ELSE b

\* contentSnippet.slice(0, 80)
Slice(s, n) == SubSeq(s, 1, Min(n, Len(s)))

\* .replace(/\s+/g, ' '): every maximal run of white space becomes one blank
RECURSIVE CollapseWs(_)
CollapseWs(s) ==
  IF s = << >> THEN << >>
  ELSE IF Head(s) \in WhiteSpace
       THEN IF Len(s) > 1 /\ s[2] \in WhiteSpace
            THEN CollapseWs(Tail(s))
            ELSE <<" ">> \o CollapseWs(Tail(s))
       ELSE <<Head(s)>> \o CollapseWs(Tail(s))

\* .trim()
RECURSIVE TrimLeft(_)
TrimLeft(s) ==
  IF s # << >> /\ Head(s) \in WhiteSpace THEN TrimLeft(Tail(s)) ELSE s

RECURSIVE TrimRight(_)
TrimRight(s) ==
  IF s # << >> /\ s[Len(s)] \in WhiteSpace
  THEN TrimRight(SubSeq(s, 1, Len(s) - 1)) ELSE s

Trim(s) == TrimRight(TrimLeft(s))

\* const snippet = (contentSnippet || '').slice(0, 80).replace(/\s+/g, ' ').trim()
Snippet(text) == Trim(CollapseWs(Slice(text, SNIPPET_LEN)))

\* all[url] = rec on a JS object used as a map
Put(all, url, r) ==
  [u \in (DOMAIN all) \cup {url} |-> IF u = url THEN r ELSE all[u]]

NoRec    == [url |-> "", name |-> "", posts |-> << >>, firstSeen |-> 0]
EmptyMap == [u \in {} |-> NoRec]
NoArg    == [kind |-> "none", url |-> "", name |-> "", role |-> "",
             date |-> NoDate, text |-> << >>]

\* getRecruiter: all[url] || { url, name: '', posts: [], firstSeen: Date.now() }
getRecruiter(all, url, t) ==
  IF url \in DOMAIN all THEN all[url]
  ELSE [url |-> url, name |-> "", posts |-> << >>, firstSeen |-> t]

\* the predicate of rec.posts.find in logPost, with the empty snippet never
\* matching
IsDupNoWildcard(p, role, date, snippet) ==
  p.role = role /\ p.date = date /\ (snippet # << >> /\ p.snippet = snippet)

\* p.role === role && p.date === dateStr && (snippet ? p.snippet === snippet : true)
IsDup(p, role, date, snippet) ==
  p.role = role /\ p.date = date /\
  (IF snippet # << >> THEN p.snippet = snippet ELSE TRUE)

\* if (name && name !== 'Unknown') rec.name = name
WithName(r, name) ==
  IF name # "" /\ name # "Unknown" THEN [r EXCEPT !.name = name] ELSE r

\* the record logPost holds after its synchronous part, and whether it saves
\* (the pushed post's `ts: Date.now()` is written and never read: left out)
logPostRec(r0, a, t) ==
  LET r1   == WithName(r0, a.name)
      snip == Snippet(a.text)
      dup  == \E i \in 1..Len(r1.posts) : IsDup(r1.posts[i], a.role, a.date, snip)
  IN  IF dup
      THEN [rec |-> r1, save |-> FALSE]
      ELSE [rec |-> [r1 EXCEPT !.posts =
                       Append(@, [role |-> a.role, date |-> a.date,
                                  snippet |-> snip])],
            save |-> TRUE]

\* ----------------------------------------------------------------- scoring
\* CFG with SAME_REPEAT = 3
CFGRepeat3 ==
  [DAILY_LIMIT |-> 2, ROLE_VARIETY |-> 3, SAME_REPEAT |-> 3,
   FAKE_STRICT |-> [posts |-> 5, days |-> 5],
   FAKE_LIKELY |-> [posts |-> 4, days |-> 5],
   FAKE_WINDOW |-> [posts |-> 5, days |-> 7],
   FAKE_SUSPICIOUS |-> [posts |-> 3, days |-> 5],
   FAKE_VERY_SUSPICIOUS |-> [posts |-> 2, days |-> 3],
   ONLY_HIRING_THRESHOLD |-> 2]

\* CFG with ONLY_HIRING_THRESHOLD = 4
CFGThreshold4 ==
  [DAILY_LIMIT |-> 2, ROLE_VARIETY |-> 3, SAME_REPEAT |-> 2,
   FAKE_STRICT |-> [posts |-> 5, days |-> 5],
   FAKE_LIKELY |-> [posts |-> 4, days |-> 5],
   FAKE_WINDOW |-> [posts |-> 5, days |-> 7],
   FAKE_SUSPICIOUS |-> [posts |-> 3, days |-> 5],
   FAKE_VERY_SUSPICIOUS |-> [posts |-> 2, days |-> 3],
   ONLY_HIRING_THRESHOLD |-> 4]

\* CFG with FAKE_VERY_SUSPICIOUS.posts = 1
CFGOnePost ==
  [DAILY_LIMIT |-> 2, ROLE_VARIETY |-> 3, SAME_REPEAT |-> 2,
   FAKE_STRICT |-> [posts |-> 5, days |-> 5],
   FAKE_LIKELY |-> [posts |-> 4, days |-> 5],
   FAKE_WINDOW |-> [posts |-> 5, days |-> 7],
   FAKE_SUSPICIOUS |-> [posts |-> 3, days |-> 5],
   FAKE_VERY_SUSPICIOUS |-> [posts |-> 1, days |-> 3],
   ONLY_HIRING_THRESHOLD |-> 2]

\* const CFG = { ... } (the fields the scoring reads)
CFG == [DAILY_LIMIT |-> 2, ROLE_VARIETY |-> 3, SAME_REPEAT |-> 2,
        FAKE_STRICT |-> [posts |-> 5, days |-> 5],
        FAKE_LIKELY |-> [posts |-> 4, days |-> 5],
        FAKE_WINDOW |-> [posts |-> 5, days |-> 7],
        FAKE_SUSPICIOUS |-> [posts |-> 3, days |-> 5],
        FAKE_VERY_SUSPICIOUS |-> [posts |-> 2, days |-> 3],
        ONLY_HIRING_THRESHOLD |-> 2]

Max(a, b) == IF a > b THEN a ELSE b

\* Math.round(k / d) for d > 0
Round(k, d) == (2 * k + d) \div (2 * d)

\* parsePostDate: null (FALSE here) for a missing or unparsable date
Parsable(post) == post.date >= 0

\* new Date(p.date + 'T12:00:00').getTime(): noon of the post's day
parsePostDate(post) == post.date * MS_PER_DAY + NOON

\* the filter with `if (!d) return true`
RecentCountsUndated(posts, t, n) ==
  Cardinality({i \in 1..Len(posts) :
                 ~Parsable(posts[i]) \/ parsePostDate(posts[i]) >= t - n * MS_PER_DAY})

\* posts.filter(p => { d = parsePostDate(p); if (!d) return false;
\*                     return d >= new Date(now - n * MS_PER_DAY) }).length
Recent(posts, t, n) ==
  Cardinality({i \in 1..Len(posts) :
                 Parsable(posts[i]) /\ parsePostDate(posts[i]) >= t - n * MS_PER_DAY})

NotFake == [isFake |-> FALSE, count |-> 0, days |-> 0, reason |-> "", confidence |-> 0]

\* Method 0 with a window of 3 days
Method0ThreeDays(n, firstSeen, ms) ==
  /\ n >= CFG.ONLY_HIRING_THRESHOLD
  /\ firstSeen # 0 /\ ms <= 3 * MS_PER_DAY /\ n >= 2

\* Method 0 asking for more than the threshold of posts
Method0MoreThan(n, firstSeen, ms) ==
  /\ n > CFG.ONLY_HIRING_THRESHOLD
  /\ firstSeen # 0 /\ ms <= 7 * MS_PER_DAY /\ n > 2

\* Method 0: posts.length >= CFG.ONLY_HIRING_THRESHOLD, then
\* firstSeen && daysSinceFirstSeen <= 7 && posts.length >= 2
Method0(n, firstSeen, ms) ==
  /\ n >= CFG.ONLY_HIRING_THRESHOLD
  /\ firstSeen # 0 /\ ms <= 7 * MS_PER_DAY /\ n >= 2

\* analyzeHiringPattern(posts, firstSeen) with Date.now() = t; `reason` is the
\* kind of the reason text, whose numbers are count and days
analyzeHiringPattern(posts, firstSeen, t) ==
  LET n  == Len(posts)
      ms == t - firstSeen
      r3 == Recent(posts, t, 3)
      r5 == Recent(posts, t, 5)
      r7 == Recent(posts, t, 7)
  IN  IF n = 0 THEN NotFake
      ELSE IF Method0(n, firstSeen, ms)
      THEN [isFake |-> TRUE, count |-> n, days |-> Round(ms, MS_PER_DAY),
            reason |-> "all posts are hiring", confidence |-> 85]
      ELSE IF firstSeen # 0 /\ n >= 3 /\ ms <= 5 * MS_PER_DAY
      THEN [isFake |-> TRUE, count |-> n, days |-> Round(ms, MS_PER_DAY),
            reason |-> "within days of observation", confidence |-> 95]
      ELSE IF r5 >= CFG.FAKE_STRICT.posts
      THEN [isFake |-> TRUE, count |-> r5, days |-> 5,
            reason |-> "in last 5 days", confidence |-> 98]
      ELSE IF r5 >= CFG.FAKE_LIKELY.posts
      THEN [isFake |-> TRUE, count |-> r5, days |-> 5,
            reason |-> "in last 5 days", confidence |-> 90]
      ELSE IF r5 >= CFG.FAKE_SUSPICIOUS.posts
      THEN [isFake |-> TRUE, count |-> r5, days |-> 5,
            reason |-> "in last 5 days", confidence |-> 80]
      ELSE IF r3 >= CFG.FAKE_VERY_SUSPICIOUS.posts
      THEN [isFake |-> TRUE, count |-> r3, days |-> 3,
            reason |-> "in last 3 days", confidence |-> 75]
      ELSE IF r7 >= CFG.FAKE_WINDOW.posts
      THEN [isFake |-> TRUE, count |-> r7, days |-> 7,
            reason |-> "in last 7 days", confidence |-> 92]
      ELSE [isFake |-> FALSE, count |-> Max(r3, Max(r5, r7)),
            days |-> IF r3 >= r5 THEN 3 ELSE IF r5 >= r7 THEN 5 ELSE 7,
            reason |-> "", confidence |-> 0]

\* the number of distinct date strings (Object.keys(byDate).length)
MaxDayDistinct(posts) == Cardinality({posts[i].date : i \in 1..Len(posts)})

\* the fewest posts that share one date string (Math.min for Math.max)
MaxDayMin(posts) ==
  LET cnt(i) == Cardinality({j \in 1..Len(posts) : posts[j].date = posts[i].date})
  IN  IF posts = << >> THEN 0
      ELSE CHOOSE m \in 1..Len(posts) :
             /\ \E i \in 1..Len(posts) : cnt(i) = m
             /\ \A i \in 1..Len(posts) : cnt(i) >= m

\* Math.max(...Object.values(byDate).map(a => a.length)): the most posts that
\* share one date string
MaxDay(posts) ==
  LET cnt(i) == Cardinality({j \in 1..Len(posts) : posts[j].date = posts[i].date})
  IN  IF posts = << >> THEN 0
      ELSE CHOOSE m \in 1..Len(posts) :
             /\ \E i \in 1..Len(posts) : cnt(i) = m
             /\ \A i \in 1..Len(posts) : cnt(i) <= m

\* [...new Set(posts.map(p => p.role).filter(Boolean))]
RolesOf(posts) == {posts[i].role : i \in 1..Len(posts)} \ {""}

\* roleCnt[r] with the first occurrence counted as 0
RoleCntFromZero(posts, r) ==
  Cardinality({i \in 1..Len(posts) : posts[i].role = r}) - 1

\* roleCnt[r]
RoleCnt(posts, r) == Cardinality({i \in 1..Len(posts) : posts[i].role = r})

\* Object.entries(roleCnt) keeps the order in which the roles first appear: the
\* reasons of the roles posted CFG.SAME_REPEAT times or more, in that order
RECURSIVE RepeatReasons(_, _)
RepeatReasons(posts, i) ==
  IF i > Len(posts) THEN << >>
  ELSE LET r     == posts[i].role
           first == \A j \in 1..(i - 1) : posts[j].role # r
       IN  (IF r # "" /\ first /\ RoleCnt(posts, r) >= CFG.SAME_REPEAT
            THEN <<[rule |-> "role repeated", role |-> r]>> ELSE << >>)
           \o RepeatReasons(posts, i + 1)

Reason(rule) == [rule |-> rule, role |-> ""]

\* the level of content.js with pts > 45 for pts >= 45
LevelAbove45(isFake, pts) ==
  IF isFake \/ pts > 45 THEN "high" ELSE IF pts >= 20 THEN "medium" ELSE "low"

\* the level of content.js with the two tests in the other order
LevelMediumFirst(isFake, pts) ==
  IF pts >= 20 THEN "medium" ELSE IF isFake \/ pts >= 45 THEN "high" ELSE "low"

\* content.js: isFake || pts >= 45 ? 'high' : pts >= 20 ? 'medium' : 'low'
Level(isFake, pts) ==
  IF isFake \/ pts >= 45 THEN "high" ELSE IF pts >= 20 THEN "medium" ELSE "low"

NoScore == [level |-> "none", pts |-> 0, reasons |-> << >>, roles |-> {},
            isFake |-> FALSE, hiringAnalysis |-> NotFake]

\* the pushes with the role-repetition reasons before both volume reasons
ReasonsRepeatsFirst(isFake, maxDay, nroles, n, repeats) ==
  (IF isFake THEN <<Reason("critical")>> ELSE << >>)
  \o (IF maxDay >= CFG.DAILY_LIMIT THEN <<Reason("single day")>> ELSE << >>)
  \o (IF nroles >= CFG.ROLE_VARIETY THEN <<Reason("different roles")>> ELSE << >>)
  \o repeats
  \o (IF n >= 2 THEN <<Reason("all tracked are hiring")>> ELSE << >>)
  \o (IF n >= 6 THEN <<Reason("total observed")>> ELSE << >>)

\* the reasons.push calls of score, in the order of the code: lines 299, 311,
\* 317, 323, 329 and 332 of content.js
Reasons(isFake, maxDay, nroles, n, repeats) ==
  (IF isFake THEN <<Reason("critical")>> ELSE << >>)
  \o (IF maxDay >= CFG.DAILY_LIMIT THEN <<Reason("single day")>> ELSE << >>)
  \o (IF nroles >= CFG.ROLE_VARIETY THEN <<Reason("different roles")>> ELSE << >>)
  \o (IF n >= 2 THEN <<Reason("all tracked are hiring")>> ELSE << >>)
  \o repeats
  \o (IF n >= 6 THEN <<Reason("total observed")>> ELSE << >>)

\* rec.firstSeen || Date.now()
FirstSeenOrNow(r, t) == IF r.firstSeen # 0 THEN r.firstSeen ELSE t

\* const firstSeen = rec.firstSeen || (Date.now() - 365 * 24 * 60 * 60 * 1000)
FirstSeen(r, t) == IF r.firstSeen # 0 THEN r.firstSeen ELSE t - 365 * MS_PER_DAY

\* score(rec) past its early return: lines 289-337 of content.js
scoreBody(r, t) ==
  LET posts     == r.posts
      firstSeen == FirstSeen(r, t)
      ha        == analyzeHiringPattern(posts, firstSeen, t)
      n         == Len(posts)
      maxDay    == MaxDay(posts)
      roles     == RolesOf(posts)
      repeats   == RepeatReasons(posts, 1)
      pts       == (IF ha.isFake THEN 100 ELSE 0)
                   + (IF maxDay >= CFG.DAILY_LIMIT THEN 40 ELSE 0)
                   + (IF Cardinality(roles) >= CFG.ROLE_VARIETY THEN 30 ELSE 0)
                   + (IF n >= 2 THEN 20 ELSE 0)
                   + 25 * Len(repeats)
                   + (IF n >= 6 THEN 15 ELSE 0)
                   + (IF n >= 8 THEN 10 ELSE 0)
      reasons   == Reasons(ha.isFake, maxDay, Cardinality(roles), n, repeats)
  IN  [level |-> Level(ha.isFake, pts), pts |-> pts, reasons |-> reasons,
       roles |-> roles, isFake |-> ha.isFake, hiringAnalysis |-> ha]

\* score(rec) without its early return for a record with no posts
scoreNoEarlyReturn(r, t) == scoreBody(r, t)

\* content.js score(rec) with Date.now() = t
score(r, t) ==
  IF Len(r.posts) = 0
  THEN [level |-> "unknown", pts |-> 0, reasons |-> << >>, roles |-> {},
        isFake |-> FALSE, hiringAnalysis |-> NotFake]
  ELSE scoreBody(r, t)

\* popup.js: isFake || pts >= 45 ? 'high' : pts >= 20 ? 'medium' : 'low'
LevelRec(isFake, pts) ==
  IF isFake \/ pts >= 45 THEN "high" ELSE IF pts >= 20 THEN "medium" ELSE "low"

NoScoreRec == [level |-> "none", pts |-> 0, roles |-> {}, isFake |-> FALSE,
               recentCount |-> 0]

\* popup.js scoreRec(rec) with Date.now() = t
scoreRec(r, t) ==
  LET posts     == r.posts
      firstSeen == IF r.firstSeen # 0 THEN r.firstSeen ELSE t - 365 * MS_PER_DAY
      n         == Len(posts)
      ms        == t - firstSeen
      fake0     == n >= 2 /\ ms <= 7 * MS_PER_DAY
      fake1     == fake0 \/ (firstSeen # 0 /\ n >= 3 /\ ms <= 5 * MS_PER_DAY)
      r3        == Recent(posts, t, 3)
      r5        == Recent(posts, t, 5)
      r7        == Recent(posts, t, 7)
      isFake    == IF fake1 THEN TRUE
                   ELSE r5 >= 5 \/ r5 >= 4 \/ r3 >= 2 \/ r7 >= 5
      recent    == IF fake1 THEN n ELSE Max(r3, Max(r5, r7))
      roles     == RolesOf(posts)
      pts       == (IF isFake THEN 100 ELSE 0)
                   + (IF MaxDay(posts) >= 2 THEN 40 ELSE 0)
                   + (IF Cardinality(roles) >= 3 THEN 30 ELSE 0)
                   + 25 * Cardinality({x \in roles : RoleCnt(posts, x) >= 2})
                   + (IF n >= 2 THEN 20 ELSE 0)
                   + (IF n >= 6 THEN 15 ELSE 0)
                   + (IF n >= 8 THEN 10 ELSE 0)
  IN  IF n = 0
      THEN [level |-> "unknown", pts |-> 0, roles |-> {}, isFake |-> FALSE,
            recentCount |-> 0]
      ELSE [level |-> LevelRec(isFake, pts), pts |-> pts, roles |-> roles,
            isFake |-> isFake, recentCount |-> recent]

\* --------------------------------------------------------------- the state
VARIABLES
  store,      \* chrome.storage.local[STORAGE_KEY]: url -> recruiter record
  now,        \* Date.now()
  pc,         \* per handler: the await it is suspended at
  arg,        \* per handler: the arguments of its call
  rec,        \* per handler: logPost's local `rec`
  dup,        \* per handler: whether logPost's local `dup` is truthy
  all,        \* per handler: saveRecruiter's local `all`
  result,     \* per handler: the record the last getRecruiter returned
  ncalls,     \* handler invocations started so far
  lastError,  \* per handler: chrome.runtime.lastError was set in the callback
              \* of a storage operation of its call (the code never reads it)
  lastName    \* history: per url, the usable name (non-empty, not 'Unknown')
              \* of the most recently started logPost call, '' if none

VARIABLES
  evalRec,    \* the record handed to score / scoreRec
  evalNow,    \* Date.now() at that evaluation
  sc,         \* what score(evalRec) returned, NoScore before the call
  popup,      \* what scoreRec(evalRec) returned, NoScoreRec before the call
  prev        \* history: what score returned for the record before its last
              \* post was logged, NoScore if none was logged since

ledgerVars == <<store, now, pc, arg, rec, dup, all, result, ncalls, lastError,
               lastName>>
evalVars   == <<evalRec, evalNow, sc, popup, prev>>
vars       == <<ledgerVars, evalVars>>

LedgerInit ==
  /\ store = EmptyMap
  /\ now = Now0
  /\ pc = [p \in Procs |-> "idle"]
  /\ arg = [p \in Procs |-> NoArg]
  /\ rec = [p \in Procs |-> NoRec]
  /\ dup = [p \in Procs |-> FALSE]
  /\ all = [p \in Procs |-> EmptyMap]
  /\ result = [p \in Procs |-> NoRec]
  /\ ncalls = 0
  /\ lastError = [p \in Procs |-> FALSE]
  /\ lastName = [u \in Urls |-> ""]

\* no evaluation is made in the ledger's behaviours
Init ==
  /\ LedgerInit
  /\ evalRec = NoRec /\ evalNow = Now0 /\ sc = NoScore /\ popup = NoScoreRec
  /\ prev = NoScore

\* ----------------------------------------------------------------- actions
\* the wall clock advances
Tick ==
  /\ now < Now0 + MaxTicks
  /\ now' = now + 1
  /\ UNCHANGED <<store, pc, arg, rec, dup, all, result, ncalls, lastError, lastName>>
  /\ UNCHANGED evalVars

\* scanPosts reaches `await logPost(author.url, author.name, role, dateStr, text)`
\* for one post element, and the storage get of logPost's getRecruiter answers;
\* logPost runs up to its next await (saveRecruiter's getData), or returns when
\* the post is a duplicate
LogPostRead(p) ==
  /\ pc[p] = "idle"
  /\ ncalls < MaxCalls
  /\ \E u \in Urls, n \in NamesIn, r \in RolesIn, d \in DatesIn, x \in TextsIn :
       LET a == [kind |-> "log", url |-> u, name |-> n, role |-> r, date |-> d,
                 text |-> x]
           o == logPostRec(getRecruiter(store, u, now), a, now)
       IN  /\ arg' = [arg EXCEPT ![p] = a]
           /\ rec' = [rec EXCEPT ![p] = o.rec]
           /\ dup' = [dup EXCEPT ![p] = ~o.save]
           /\ pc' = [pc EXCEPT ![p] = IF o.save THEN "save_get" ELSE "lp_ret"]
           /\ lastName' = IF n \in {"", "Unknown"} THEN lastName
                          ELSE [lastName EXCEPT ![u] = n]
  /\ ncalls' = ncalls + 1
  /\ UNCHANGED <<store, now, all, result, lastError>>
  /\ UNCHANGED evalVars

\* saveRecruiter: `const all = await getData(); all[url] = rec;` then setData
\* is issued
SaveRead(p) ==
  /\ pc[p] = "save_get"
  /\ all' = [all EXCEPT ![p] = Put(store, arg[p].url, rec[p])]
  /\ pc' = [pc EXCEPT ![p] = "save_set"]
  /\ UNCHANGED <<store, now, arg, rec, dup, result, ncalls, lastError, lastName>>
  /\ UNCHANGED evalVars

\* saveRecruiter: `await setData(all)` takes effect; logPost returns rec
SaveWrite(p) ==
  /\ pc[p] = "save_set"
  /\ store' = all[p]
  /\ all' = [all EXCEPT ![p] = EmptyMap]
  /\ pc' = [pc EXCEPT ![p] = "lp_ret"]
  /\ UNCHANGED <<now, arg, rec, dup, result, ncalls, lastError, lastName>>
  /\ UNCHANGED evalVars

\* scanPosts: `const updatedRec = await getRecruiter(author.url)` right after
\* logPost returned
Refetch(p) ==
  /\ pc[p] = "lp_ret"
  /\ result' = [result EXCEPT ![p] = getRecruiter(store, arg[p].url, now)]
  /\ pc' = [pc EXCEPT ![p] = "done"]
  /\ UNCHANGED <<store, now, arg, rec, dup, all, ncalls, lastError, lastName>>
  /\ UNCHANGED evalVars

\* getRecruiter called on its own, with the store written as well
GetRecruiterCreates(p) ==
  /\ pc[p] = "idle"
  /\ ncalls < MaxCalls
  /\ \E u \in Urls :
       /\ arg' = [arg EXCEPT ![p] = [NoArg EXCEPT !.kind = "get", !.url = u]]
       /\ result' = [result EXCEPT ![p] = getRecruiter(store, u, now)]
       /\ store' = Put(store, u, getRecruiter(store, u, now))
  /\ pc' = [pc EXCEPT ![p] = "done"]
  /\ ncalls' = ncalls + 1
  /\ UNCHANGED <<now, rec, dup, all, lastError, lastName>>
  /\ UNCHANGED evalVars

\* a caller awaits getRecruiter(url) on its own and the storage get answers
GetRecruiterRead(p) ==
  /\ pc[p] = "idle"
  /\ ncalls < MaxCalls
  /\ \E u \in Urls :
       /\ arg' = [arg EXCEPT ![p] = [NoArg EXCEPT !.kind = "get", !.url = u]]
       /\ result' = [result EXCEPT ![p] = getRecruiter(store, u, now)]
  /\ pc' = [pc EXCEPT ![p] = "done"]
  /\ ncalls' = ncalls + 1
  /\ UNCHANGED <<store, now, rec, dup, all, lastError, lastName>>
  /\ UNCHANGED evalVars

\* the handler ends; its locals are dropped
Finish(p) ==
  /\ pc[p] = "done"
  /\ pc' = [pc EXCEPT ![p] = "idle"]
  /\ arg' = [arg EXCEPT ![p] = NoArg]
  /\ rec' = [rec EXCEPT ![p] = NoRec]
  /\ dup' = [dup EXCEPT ![p] = FALSE]
  /\ result' = [result EXCEPT ![p] = NoRec]
  /\ lastError' = [lastError EXCEPT ![p] = FALSE]
  /\ UNCHANGED <<store, now, all, ncalls, lastName>>
  /\ UNCHANGED evalVars

Step(p) ==
  \/ LogPostRead(p)
  \/ SaveRead(p)
  \/ SaveWrite(p)
  \/ Refetch(p)
  \/ GetRecruiterRead(p)
  \/ Finish(p)

\* handlers interleave at their awaits
Next == Tick \/ \E p \in Procs : Step(p)

Spec == Init /\ [][Next]_vars

\* one handler at a time: a handler starts only when no other is in flight
OthersIdle(p) == \A q \in Procs \ {p} : pc[q] = "idle"

SeqLogPost(p) == OthersIdle(p) /\ LogPostRead(p)

SeqGetRecruiter(p) == OthersIdle(p) /\ GetRecruiterRead(p)

SeqNext ==
  \/ Tick
  \/ \E p \in Procs :
       \/ SeqLogPost(p)
       \/ SeqGetRecruiter(p)
       \/ SaveRead(p)
       \/ SaveWrite(p)
       \/ Refetch(p)
       \/ Finish(p)

SpecSeq == Init /\ [][SeqNext]_vars

\* ---------------------------------------------------- storage that can fail
\* chrome.storage reports a failed operation by calling the callback with
\* chrome.runtime.lastError set and no result.
\* The get of logPost's getRecruiter fails: getData's callback evaluates
\* d[STORAGE_KEY] with d undefined and throws inside the callback, the promise
\* is never settled and logPost stays at its first await
LogPostGetFails(p) ==
  /\ pc[p] = "idle"
  /\ OthersIdle(p)
  /\ ncalls < MaxCalls
  /\ \E u \in Urls, n \in NamesIn, r \in RolesIn, d \in DatesIn, x \in TextsIn :
       arg' = [arg EXCEPT ![p] = [kind |-> "log", url |-> u, name |-> n,
                                  role |-> r, date |-> d, text |-> x]]
  /\ pc' = [pc EXCEPT ![p] = "hung"]
  /\ lastError' = [lastError EXCEPT ![p] = TRUE]
  /\ ncalls' = ncalls + 1
  /\ UNCHANGED <<store, now, rec, dup, all, result, lastName>>
  /\ UNCHANGED evalVars

\* the get of saveRecruiter's getData fails in the same way
SaveGetFails(p) ==
  /\ pc[p] = "save_get"
  /\ pc' = [pc EXCEPT ![p] = "hung"]
  /\ lastError' = [lastError EXCEPT ![p] = TRUE]
  /\ UNCHANGED <<store, now, arg, rec, dup, all, result, ncalls, lastName>>
  /\ UNCHANGED evalVars

\* the set of setData fails: nothing is written, and the callback is the
\* promise's resolve, so `await setData(all)` completes and logPost returns rec
SaveSetFails(p) ==
  /\ pc[p] = "save_set"
  /\ all' = [all EXCEPT ![p] = EmptyMap]
  /\ pc' = [pc EXCEPT ![p] = "lp_ret"]
  /\ lastError' = [lastError EXCEPT ![p] = TRUE]
  /\ UNCHANGED <<store, now, arg, rec, dup, result, ncalls, lastName>>
  /\ UNCHANGED evalVars

FailNext ==
  \/ Tick
  \/ \E p \in Procs :
       \/ SeqLogPost(p)
       \/ SeqGetRecruiter(p)
       \/ SaveRead(p)
       \/ SaveWrite(p)
       \/ Refetch(p)
       \/ Finish(p)
       \/ LogPostGetFails(p)
       \/ SaveGetFails(p)
       \/ SaveSetFails(p)

SpecFail == Init /\ [][FailNext]_vars

\* -------------------------------------------------------------- evaluation
\* the records and clocks score and scoreRec are evaluated on
EvalPost  == [role : EvalRoles, date : EvalDates, snippet : {<< >>}]
EvalPosts == UNION {[1..n -> EvalPost] : n \in 0..MaxEvalPosts}

ScoreInit ==
  /\ LedgerInit
  /\ evalRec \in [url : {"in/a"}, name : {"Al"}, posts : EvalPosts,
                  firstSeen : EvalFirstSeen]
  /\ evalNow \in EvalNows
  /\ sc = NoScore /\ popup = NoScoreRec /\ prev = NoScore

\* the content script scores the record: `const sc = score(updatedRec)`
Score ==
  /\ sc = NoScore
  /\ sc' = score(evalRec, evalNow)
  /\ UNCHANGED <<evalRec, evalNow, popup, prev>>
  /\ UNCHANGED ledgerVars

\* the popup scores the record in render(): `sc: scoreRec(rec)`
ScoreRec ==
  /\ popup = NoScoreRec
  /\ popup' = scoreRec(evalRec, evalNow)
  /\ UNCHANGED <<evalRec, evalNow, sc, prev>>
  /\ UNCHANGED ledgerVars

\* scanPosts meets one more post of an author whose badge it has scored: logPost
\* appends the post, the record is fetched again and scored (content.js:765-769);
\* a popup that was open has to render again
LogAndScore(S, max) ==
  /\ sc # NoScore
  /\ Len(evalRec.posts) < max
  /\ \E p \in S :
       /\ evalRec' = [evalRec EXCEPT !.posts = Append(@, p)]
       /\ sc' = score([evalRec EXCEPT !.posts = Append(@, p)], evalNow)
  /\ prev' = sc
  /\ popup' = NoScoreRec
  /\ UNCHANGED evalNow
  /\ UNCHANGED ledgerVars

AddPost == LogAndScore(EvalPost, MaxEvalPosts)

ScoreNext == Score \/ ScoreRec \/ AddPost

SpecScore == ScoreInit /\ [][ScoreNext]_vars

\* ------------------------------------------------------------ window runs
\* records of up to MaxWinPosts posts, dated in the last 3 days (day 20, and
\* day 17 before noon), in the last 5 (day 17) and in the last 7 (day 14);
\* firstSeen absent, 10 days and 4 days before day 20
WinRoles     == {"", "Dev"}
WinDates     == {14, 17, 20}
WinFirstSeen == {0, 10 * 24 + 9, 16 * 24 + 9}
WinPost      == [role : WinRoles, date : WinDates, snippet : {<< >>}]
WinPosts     == UNION {[1..n -> WinPost] : n \in 0..MaxWinPosts}

WindowInit ==
  /\ LedgerInit
  /\ evalRec \in [url : {"in/a"}, name : {"Al"}, posts : WinPosts,
                  firstSeen : WinFirstSeen]
  /\ evalNow \in EvalNows
  /\ sc = NoScore /\ popup = NoScoreRec /\ prev = NoScore

AddWinPost == LogAndScore(WinPost, MaxWinPosts)

WindowNext == Score \/ ScoreRec \/ AddWinPost

SpecWindow == WindowInit /\ [][WindowNext]_vars

\* ------------------------------------------------------------ volume runs
\* records of up to MaxVolPosts posts: three roles, two posts that share day
\* 10, outside the windows, and one of day 20; firstSeen 15 days before now
VolPost ==
  {[role |-> "Dev", date |-> 10, snippet |-> << >>],
   [role |-> "QA",  date |-> 10, snippet |-> << >>],
   [role |-> "Ops", date |-> 20, snippet |-> << >>]}
VolPosts == UNION {[1..n -> VolPost] : n \in 0..MaxVolPosts}

VolumeInit ==
  /\ LedgerInit
  /\ evalRec \in [url : {"in/a"}, name : {"Al"}, posts : VolPosts,
                  firstSeen : {5 * 24 + 9}]
  /\ evalNow = 20 * 24 + 9
  /\ sc = NoScore /\ popup = NoScoreRec /\ prev = NoScore

AddVolPost == LogAndScore(VolPost, MaxVolPosts)

VolumeNext == Score \/ ScoreRec \/ AddVolPost

SpecVolume == VolumeInit /\ [][VolumeNext]_vars

\* ---------------------------------------------------------------- scenarios
\* the clocks, roles and dates of the scenario records: three times of day 20
ScenNows  == {20 * MS_PER_DAY, 20 * MS_PER_DAY + 9, 20 * MS_PER_DAY + 15}
ScenRoles == {"", "Dev", "QA"}
ScenDates == 15..20

\* Date.now() as a day number
Today(t) == t \div MS_PER_DAY

\* ledgers of k posts with one role and dates from ScenDates, in any order
SameRolePosts(k) ==
  {[i \in 1..k |-> [role |-> r, date |-> f[i], snippet |-> << >>]] :
     r \in ScenRoles, f \in [1..k -> ScenDates]}

\* 5 posts of one role, dated on 5 consecutive days, all within the last 5
\* days (not before now - 5 days, not after today), firstSeen 5 days before now
ScenarioA(r, t) ==
  /\ Len(r.posts) = 5
  /\ \A i, j \in 1..5 : r.posts[i].role = r.posts[j].role
  /\ \E d \in ScenDates : {r.posts[i].date : i \in 1..5} = d..(d + 4)
  /\ \A i \in 1..5 :
       /\ r.posts[i].date * MS_PER_DAY + NOON >= t - 5 * MS_PER_DAY
       /\ r.posts[i].date <= Today(t)
  /\ r.firstSeen = t - 5 * MS_PER_DAY

\* 2 posts, both dated 10 days before now, firstSeen 10 days before now
ScenarioC(r, t) ==
  /\ Len(r.posts) = 2
  /\ \A i \in 1..2 : r.posts[i].date = Today(t) - 10
  /\ r.firstSeen = t - 10 * MS_PER_DAY

ScenarioInit ==
  /\ LedgerInit
  /\ evalNow \in ScenNows
  /\ \/ /\ evalRec \in [url : {"in/a"}, name : {"Al"}, posts : SameRolePosts(5),
                        firstSeen : {evalNow - 5 * MS_PER_DAY}]
        /\ ScenarioA(evalRec, evalNow)
     \/ evalRec \in [url : {"in/a"}, name : {"Al"},
                     posts : [1..2 -> [role : ScenRoles, date : {Today(evalNow) - 10},
                                       snippet : {<< >>}]],
                     firstSeen : {evalNow - 10 * MS_PER_DAY}]
  /\ sc = NoScore /\ popup = NoScoreRec /\ prev = NoScore

ScenarioNext == Score \/ ScoreRec

SpecScenario == ScenarioInit /\ [][ScenarioNext]_vars

\* --------------------------------------------------- evaluation properties
\* C1: score and scoreRec return level 'unknown' exactly for a record with no
\* posts, and then with pts = 0 and isFake = false.
C1_UnknownIffNoPosts ==
  /\ sc # NoScore =>
       /\ (sc.level = "unknown") <=> (Len(evalRec.posts) = 0)
       /\ Len(evalRec.posts) = 0 => (sc.pts = 0 /\ ~sc.isFake)
  /\ popup # NoScoreRec =>
       /\ (popup.level = "unknown") <=> (Len(evalRec.posts) = 0)
       /\ Len(evalRec.posts) = 0 => (popup.pts = 0 /\ ~popup.isFake)

\* both functions have scored a record with no posts
C1_Witness ==
  /\ Len(evalRec.posts) = 0
  /\ sc # NoScore /\ sc.level = "unknown"
  /\ popup # NoScoreRec /\ popup.level = "unknown"

\* C2: a result with isFake = true has level 'high'.
C2_FakeIsHigh ==
  /\ (sc # NoScore /\ sc.isFake) => sc.level = "high"
  /\ (popup # NoScoreRec /\ popup.isFake) => popup.level = "high"

\* both functions found a record fake
C2_Witness ==
  /\ sc # NoScore /\ sc.isFake /\ sc.level = "high"
  /\ popup # NoScoreRec /\ popup.isFake /\ popup.level = "high"

\* ------------------------------------------------------- ledger properties
\* post triple (role, date, fingerprint) of a logPost call
Triple(a) == [role |-> a.role, date |-> a.date, snippet |-> Snippet(a.text)]

HasPost(r, t) == \E i \in 1..Len(r.posts) : r.posts[i] = t

InStore(u, t) == u \in DOMAIN store /\ HasPost(store[u], t)

\* handler p has a logPost call that returned
Logged(p) == pc[p] \in {"lp_ret", "done"} /\ arg[p].kind = "log"

\* C3: no stored ledger holds two posts with the same (role, date, fingerprint)
\* triple, whatever calls were made, empty fingerprints included.
C3_NoDuplicateTriple ==
  \A u \in DOMAIN store :
    \A i, j \in 1..Len(store[u].posts) :
      i # j => store[u].posts[i] # store[u].posts[j]

\* a second call with a triple already in the ledger returned, one with an empty
\* fingerprint among them, and the ledger still holds that triple
C3_Witness ==
  \E p \in Procs :
    /\ Logged(p) /\ dup[p]
    /\ Snippet(arg[p].text) = << >>
    /\ InStore(arg[p].url, Triple(arg[p]))

\* C4: when a logPost call returns and the ledger holds a post of the same role
\* and date with another fingerprint, the ledger holds the call's post as well
\* (two posts), also when one of the two fingerprints is empty.
C4_DistinctFingerprints ==
  \A p \in Procs :
    (/\ Logged(p)
     /\ arg[p].url \in DOMAIN store
     /\ \E i \in 1..Len(store[arg[p].url].posts) :
          LET q == store[arg[p].url].posts[i]
          IN  q.role = arg[p].role /\ q.date = arg[p].date
              /\ q.snippet # Snippet(arg[p].text))
    => InStore(arg[p].url, Triple(arg[p]))

\* C5: two logPost calls for one author with two distinct posts (non-empty
\* fingerprints) have both returned: the stored ledger holds both posts.
C5_NoLostUpdate ==
  \A p, q \in Procs :
    (/\ p # q /\ Logged(p) /\ Logged(q)
     /\ arg[p].url = arg[q].url
     /\ Triple(arg[p]) # Triple(arg[q])
     /\ Triple(arg[p]).snippet # << >> /\ Triple(arg[q]).snippet # << >>)
    => InStore(arg[p].url, Triple(arg[p])) /\ InStore(arg[q].url, Triple(arg[q]))

\* C6: two logPost calls for two different authors have both returned: the
\* store holds each author's record with that author's post.
C6_AuthorsIndependent ==
  \A p, q \in Procs :
    (/\ Logged(p) /\ Logged(q)
     /\ arg[p].url # arg[q].url
     /\ Triple(arg[p]).snippet # << >> /\ Triple(arg[q]).snippet # << >>)
    => InStore(arg[p].url, Triple(arg[p])) /\ InStore(arg[q].url, Triple(arg[q]))

\* C7: the record getRecruiter returns right after logPost returned holds a
\* post with the call's role, date and fingerprint.
C7_RoundTrip ==
  \A p \in Procs :
    (pc[p] = "done" /\ arg[p].kind = "log") => HasPost(result[p], Triple(arg[p]))

\* C8: a getRecruiter call leaves the store as it was; for an unknown author it
\* returns a record with no posts and firstSeen = now, and the author is still
\* absent from the store.
C8_GetRecruiterReadOnly ==
  [][\A p \in Procs :
       (pc[p] # "done" /\ pc'[p] = "done") =>
         /\ store' = store
         /\ arg'[p].url \notin DOMAIN store =>
              /\ result'[p].posts = << >>
              /\ result'[p].firstSeen = now
              /\ arg'[p].url \notin DOMAIN store']_vars

\* getRecruiter returned the empty record for an unknown author while another
\* author is stored, and the unknown author is still not stored
C8_Witness ==
  \E p \in Procs :
    /\ pc[p] = "done" /\ arg[p].kind = "get"
    /\ arg[p].url \notin DOMAIN store
    /\ DOMAIN store # {}
    /\ result[p].posts = << >> /\ result[p].firstSeen = now

\* C9: a stored firstSeen never changes afterwards.
C9_FirstSeenStable ==
  [][\A u \in DOMAIN store :
       u \in DOMAIN store' => store'[u].firstSeen = store[u].firstSeen]_vars

\* C10: when no call is in progress, the stored name of every author is the
\* usable name of the most recent logPost call that had one.
C10_DisplayNameLatest ==
  (\A p \in Procs : pc[p] = "idle") =>
    \A u \in DOMAIN store : store[u].name = lastName[u]

\* ------------------------------------------------- properties of the score
\* C11: with now and firstSeen fixed, the points score returns for a ledger
\* with one more post appended are at least the points it returned for the
\* ledger before.
C11_Monotone == prev # NoScore => sc.pts >= prev.pts

\* a post was appended to a ledger that had points, and the points went up
C11_Witness ==
  /\ prev # NoScore /\ prev.pts > 0
  /\ sc.pts > prev.pts

\* ------------------------------------------------------- storage failures
\* C12: when a storage read or write failed during a logPost call, the call
\* does not return its record as if the post had been recorded: it ends with
\* an error (no handler whose storage operation failed is past logPost's
\* return), and the failed operation is not tried again.
C12_FailurePropagates ==
  \A p \in Procs : lastError[p] => ~Logged(p)

\* ------------------------------------------------------- malformed dates
\* the post carries a date string that parses
Dated(post) == post.date \notin {NoDate, BadDate}

DatedPosts(posts) == SelectSeq(posts, Dated)

\* firstSeen is absent or more than 7 days before now: the verdict is the
\* sliding-window rule's
OldFirstSeen(r, t) == r.firstSeen = 0 \/ t - r.firstSeen > 7 * MS_PER_DAY

\* C13: for any ledger, posts with a missing or unparsable date included, score
\* and scoreRec return a result; such posts are counted in none of the 3-, 5-
\* and 7-day windows: the window count reported is at most the number of dated
\* posts, and the windows' verdict is the one of the ledger without them.
C13_UndatedNotCounted ==
  LET dated == DatedPosts(evalRec.posts)
      fs    == FirstSeen(evalRec, evalNow)
  IN  /\ sc # NoScore =>
           /\ sc.level \in {"unknown", "low", "medium", "high"}
           /\ OldFirstSeen(evalRec, evalNow) =>
                /\ sc.hiringAnalysis.count <= Len(dated)
                /\ sc.isFake = analyzeHiringPattern(dated, fs, evalNow).isFake
      /\ popup # NoScoreRec =>
           /\ popup.level \in {"unknown", "low", "medium", "high"}
           /\ OldFirstSeen(evalRec, evalNow) =>
                /\ popup.recentCount <= Len(dated)
                /\ popup.isFake
                     = scoreRec([evalRec EXCEPT !.posts = dated], evalNow).isFake

\* both functions scored a ledger holding a post without a date, a post with
\* an unparsable date and one dated post, and counted the dated one only
C13_Witness ==
  /\ OldFirstSeen(evalRec, evalNow)
  /\ \E i, j \in 1..Len(evalRec.posts) :
       evalRec.posts[i].date = NoDate /\ evalRec.posts[j].date = BadDate
  /\ sc # NoScore /\ sc.hiringAnalysis.count = 1 /\ ~sc.isFake
  /\ popup # NoScoreRec /\ popup.recentCount = 1 /\ ~popup.isFake

\* ----------------------------------------------------- the rules' verdicts
\* one of the sliding-window thresholds is met
WindowFake(posts, t) ==
  \/ Recent(posts, t, 5) >= 3
  \/ Recent(posts, t, 3) >= 2
  \/ Recent(posts, t, 7) >= 5

\* C14: for a record without firstSeen, whatever its posts and now, neither the
\* all-hiring rule (confidence 85) nor the observation rule (confidence 95)
\* gives the verdict: isFake is true only when a sliding-window threshold is
\* met.
C14_LegacyOnlyWindows ==
  evalRec.firstSeen = 0 =>
    /\ sc # NoScore =>
         /\ sc.hiringAnalysis.confidence \notin {85, 95}
         /\ sc.hiringAnalysis.reason
              \notin {"all posts are hiring", "within days of observation"}
         /\ sc.isFake => WindowFake(evalRec.posts, evalNow)
    /\ popup # NoScoreRec =>
         (popup.isFake => WindowFake(evalRec.posts, evalNow))

\* a record without firstSeen and with 3 posts was scored by both functions
\* and found fake on the 2-posts-in-3-days threshold
C14_Witness ==
  /\ evalRec.firstSeen = 0 /\ Len(evalRec.posts) = 3
  /\ sc # NoScore /\ popup # NoScoreRec
  /\ sc.isFake /\ popup.isFake
  /\ sc.hiringAnalysis.reason = "in last 3 days"

\* ---------------------------------------------------------------- scenarios
\* C15 as stated: in scenario A score returns isFake = true on the
\* confidence-98 path (5 or more posts in 5 days) and level 'high'.
C15_ScenarioA98 ==
  (ScenarioA(evalRec, evalNow) /\ sc # NoScore) =>
    /\ sc.isFake /\ sc.level = "high"
    /\ sc.hiringAnalysis.confidence = 98

\* C15 amended: in scenario A score returns isFake = true and level 'high', the
\* verdict being Method 0's (all posts are hiring, confidence 85), which is
\* tested before the windows; scoreRec returns isFake = true and level 'high'.
C15_ScenarioA85 ==
  ScenarioA(evalRec, evalNow) =>
    /\ sc # NoScore =>
         /\ sc.isFake /\ sc.level = "high"
         /\ sc.hiringAnalysis.confidence = 85
         /\ sc.hiringAnalysis.reason = "all posts are hiring"
    /\ popup # NoScoreRec => (popup.isFake /\ popup.level = "high")

\* a scenario A record was scored by both functions
C15_Witness ==
  /\ ScenarioA(evalRec, evalNow)
  /\ sc # NoScore /\ sc.hiringAnalysis.confidence = 85
  /\ popup # NoScoreRec /\ popup.isFake

ScenarioCPts(r) ==
  20 + 40 + (IF r.posts[1].role = r.posts[2].role /\ r.posts[1].role # ""
             THEN 25 ELSE 0)

C17_OnePostLow ==
  Len(evalRec.posts) = 1 =>
    /\ sc # NoScore => (~sc.isFake /\ sc.level = "low")
    /\ popup # NoScoreRec => (~popup.isFake /\ popup.level = "low")

\* a record first seen within the last 5 days, with one post dated today, was
\* scored by both functions
C17_Witness ==
  /\ Len(evalRec.posts) = 1
  /\ evalRec.firstSeen # 0 /\ evalNow - evalRec.firstSeen <= 5 * MS_PER_DAY
  /\ evalRec.posts[1].date = Today(evalNow) /\ evalRec.posts[1].role # ""
  /\ sc # NoScore /\ sc.level = "low"
  /\ popup # NoScoreRec /\ popup.level = "low"

\* C19: whenever the record has at least 2 posts and now - firstSeen is at most
\* 7 days (firstSeen known), score returns isFake = true with confidence 85 and
\* scoreRec returns isFake = true, whatever the posts' dates and roles and the
\* window counts are.
C19_AllHiring ==
  (/\ Len(evalRec.posts) >= 2
   /\ evalRec.firstSeen # 0
   /\ evalNow - evalRec.firstSeen <= 7 * MS_PER_DAY) =>
    /\ sc # NoScore => (sc.isFake /\ sc.hiringAnalysis.confidence = 85)
    /\ popup # NoScoreRec => popup.isFake

\* a record first seen exactly 7 days ago, with 2 posts that no window counts,
\* was found fake by both functions
C19_Witness ==
  /\ Len(evalRec.posts) = 2
  /\ evalRec.firstSeen # 0
  /\ evalNow - evalRec.firstSeen = 7 * MS_PER_DAY
  /\ Recent(evalRec.posts, evalNow, 7) = 0
  /\ sc # NoScore /\ sc.hiringAnalysis.confidence = 85
  /\ popup # NoScoreRec /\ popup.isFake

\* ------------------------------------------------------- popup and windows
\* C18: scoreRec and score return the same isFake, the same pts and the same
\* level for every record and every now.
C18_PopupMatchesContent ==
  (sc # NoScore /\ popup # NoScoreRec) =>
    /\ popup.isFake = sc.isFake
    /\ popup.pts = sc.pts
    /\ popup.level = sc.level

\* the confidence of the first sliding-window threshold met, in the order of
\* the rule, 0 when none is met
WindowConfidence(posts, t) ==
  IF Recent(posts, t, 5) >= 5 THEN 98
  ELSE IF Recent(posts, t, 5) >= 4 THEN 90
  ELSE IF Recent(posts, t, 5) >= 3 THEN 80
  ELSE IF Recent(posts, t, 3) >= 2 THEN 75
  ELSE IF Recent(posts, t, 7) >= 5 THEN 92
  ELSE 0

\* C20: when neither the all-hiring rule nor the observation rule fires (fewer
\* than 2 posts, or firstSeen absent or more than 7 days old), the verdict and
\* its confidence are those of the first threshold met in the order 5 in 5
\* days (98), 4 in 5 (90), 3 in 5 (80), 2 in 3 (75), 5 in 7 (92), and isFake is
\* false when none is met.
C20_FirstThresholdWins ==
  (Len(evalRec.posts) < 2 \/ OldFirstSeen(evalRec, evalNow)) =>
    LET c == WindowConfidence(evalRec.posts, evalNow)
    IN  /\ sc # NoScore =>
             /\ sc.hiringAnalysis.confidence = c
             /\ sc.isFake = (c # 0)
        /\ popup # NoScoreRec => popup.isFake = (c # 0)

\* ------------------------------------------------------ windows and points
\* the posts dated at most n calendar days before the day of t
CalendarCount(posts, t, n) ==
  Cardinality({i \in 1..Len(posts) :
                 Dated(posts[i]) /\ Today(t) - posts[i].date <= n})

\* the window thresholds on the calendar-day counts
CalendarConfidence(posts, t) ==
  IF CalendarCount(posts, t, 5) >= 5 THEN 98
  ELSE IF CalendarCount(posts, t, 5) >= 4 THEN 90
  ELSE IF CalendarCount(posts, t, 5) >= 3 THEN 80
  ELSE IF CalendarCount(posts, t, 3) >= 2 THEN 75
  ELSE IF CalendarCount(posts, t, 7) >= 5 THEN 92
  ELSE 0

\* C21: for N in {3, 5, 7} a post is counted in the N-day window exactly when
\* its date is at most N calendar days before the day of now, at every time of
\* day: the window counts are the calendar-day counts, and when the windows
\* give the verdict it is the one the calendar-day counts give.
C21_CalendarWindows ==
  sc # NoScore =>
    /\ \A n \in {3, 5, 7} :
         Recent(evalRec.posts, evalNow, n) = CalendarCount(evalRec.posts, evalNow, n)
    /\ (Len(evalRec.posts) < 2 \/ OldFirstSeen(evalRec, evalNow)) =>
         sc.hiringAnalysis.confidence = CalendarConfidence(evalRec.posts, evalNow)

\* the points of the rules, from the ledger and the verdict
RulePoints(posts, isFake) ==
  LET n        == Len(posts)
      shared   == \E i, j \in 1..n : i # j /\ posts[i].date = posts[j].date
      roles    == {posts[i].role : i \in 1..n} \ {""}
      repeated == {r \in roles : \E i, j \in 1..n :
                                  i # j /\ posts[i].role = r /\ posts[j].role = r}
  IN  (IF isFake THEN 100 ELSE 0)
      + (IF shared THEN 40 ELSE 0)
      + (IF Cardinality(roles) >= 3 THEN 30 ELSE 0)
      + 25 * Cardinality(repeated)
      + (IF n >= 2 THEN 20 ELSE 0)
      + (IF n >= 6 THEN 15 ELSE 0)
      + (IF n >= 8 THEN 10 ELSE 0)

Tier(isFake, pts) ==
  IF isFake \/ pts >= 45 THEN "high"
  ELSE IF pts >= 20 THEN "medium"
  ELSE "low"

RuleRank(reason) ==
  CASE reason.rule = "critical" -> 1
    [] reason.rule = "single day" -> 2
    [] reason.rule = "different roles" -> 3
    [] reason.rule = "role repeated" -> 4
    [] reason.rule = "all tracked are hiring" -> 5
    [] reason.rule = "total observed" -> 5

\* the place of a reason in the order of the code's pushes
PushRank(reason) ==
  CASE reason.rule = "critical" -> 1
    [] reason.rule = "single day" -> 2
    [] reason.rule = "different roles" -> 3
    [] reason.rule = "all tracked are hiring" -> 4
    [] reason.rule = "role repeated" -> 5
    [] reason.rule = "total observed" -> 6

\* C24 as stated: in the reasons of score the fake-verdict reason comes first,
\* then daily burst, role variety, the role-repetition reasons and the volume
\* reasons: no reason of a later rule precedes one of an earlier rule.
C24_ReasonsInRuleOrder ==
  sc # NoScore =>
    \A i, j \in 1..Len(sc.reasons) :
      i < j => RuleRank(sc.reasons[i]) <= RuleRank(sc.reasons[j])

\* C24 amended: the reasons of score come in the order fake verdict, daily
\* burst, role variety, the volume reason of 2 posts or more ('all tracked
\* posts are hiring'), the role-repetition reasons, the volume reason of 6
\* posts or more: the first volume reason precedes the role repetitions.
C24_ReasonsInPushOrder ==
  sc # NoScore =>
    \A i, j \in 1..Len(sc.reasons) :
      i < j =>
        /\ PushRank(sc.reasons[i]) <= PushRank(sc.reasons[j])
        /\ PushRank(sc.reasons[i]) = PushRank(sc.reasons[j]) =>
             sc.reasons[i].rule = "role repeated"

\* a ledger was scored with a reason of each of the six kinds, two role
\* repetitions among them
C24_Witness ==
  /\ sc # NoScore
  /\ {sc.reasons[i].rule : i \in 1..Len(sc.reasons)}
       = {"critical", "single day", "different roles", "all tracked are hiring",
          "role repeated", "total observed"}
  /\ Len(sc.reasons) = 7

\* ------------------------------------------------- the observation rule
\* C25: Method 1 (3 posts or more within 5 days of firstSeen) never gives the
\* verdict: whenever its condition holds Method 0 has returned before it, so
\* no result of score carries confidence 95 or the 'within N days of
\* observation' reason.
C25_ObservationNeverDecides ==
  sc # NoScore =>
    /\ sc.hiringAnalysis.confidence # 95
    /\ sc.hiringAnalysis.reason # "within days of observation"
    /\ (/\ evalRec.firstSeen # 0
        /\ Len(evalRec.posts) >= 3
        /\ evalNow - evalRec.firstSeen <= 5 * MS_PER_DAY) =>
         sc.hiringAnalysis.reason = "all posts are hiring"

\* a record with 3 posts, first seen 4 days before now, was scored: Method 1's
\* condition holds and the verdict is Method 0's
C25_Witness ==
  /\ Len(evalRec.posts) = 3
  /\ evalRec.firstSeen # 0
  /\ evalNow - evalRec.firstSeen = 4 * MS_PER_DAY
  /\ sc # NoScore /\ sc.isFake
  /\ sc.hiringAnalysis.reason = "all posts are hiring"

\* ------------------------------------------------------ the medium level
\* every post has a role, as every post logged with extractRole's result has
AllRolesGiven(posts) == \A i \in 1..Len(posts) : posts[i].role # ""

\* exactly 2 posts, of different dates and different roles
TwoUnrelatedPosts(posts) ==
  /\ Len(posts) = 2
  /\ posts[1].date # posts[2].date
  /\ posts[1].role # posts[2].role

====
